---- MODULE Spec2Model ----
(***************************************************************************)
(* Model of the video-to-splat pipeline orchestrator                       *)
(* (src/mac/video_to_splat.py): repeated invocations of main() on one      *)
(* workspace directory.  Every external tool invocation (subprocess.run)   *)
(* is one step whose exit code is chosen by the environment; the directory *)
(* tree of the workspace persists from one invocation to the next.         *)
(***************************************************************************)
EXTENDS Integers, Sequences, FiniteSets

\* ------------------------------------------------------------ bounds
\* Invocations of main() on the same workspace.
MaxRuns == 2
\* Frames one ffmpeg invocation can write (frame_0001.jpg .. frame_000N.jpg).
MaxFrames == 2
\* Model variants the mapper can leave under sparse/ (model m is sparse/<m-1>).
MaxModels == 1
\* .ply files a scan of the workspace can find.
MaxPly == 1
\* Frames a pre-filled images directory can hold in SpecAdvise.
MaxFrameCount == 302
\* Seconds the wall clock can advance in SpecJobs.
MaxClock == 1

\* ------------------------------------------------------------ inputs
\* Exit codes of an external tool: success and failure.
RC == {0, 1}
\* argparse --steps: default None (no value), or <<s>> for an integer s.
NoSteps == <<>>
StepsArgs == {0, 60000}
\* The step counts used by SpecAdvise.
StepsArgsAdvise == {0 - 5, 0, 1, 60000}

VARIABLES
    pc,            \* position of the running invocation of main(); "idle" before the first
    runs,          \* invocations started so far
    args,          \* parsed command line of the running invocation
    exited,        \* the invocation's process has ended
    exitStatus,    \* its exit status (meaningful when exited)
    error,         \* the error message printed before sys.exit(1), "none" otherwise
    calls,         \* external tools invoked by this invocation, in order, with exit codes
    imagesDir,     \* <workspace>/images exists
    images,        \* <workspace>/images/*.jpg: frame number -> content
    originals,     \* <workspace>/images_original/*.jpg: frame number -> content
    sparse,        \* subdirectories of <workspace>/sparse
    frame_count,   \* main's local frame_count
    defaults,      \* main's local defaults
    total_steps,   \* main's local total_steps
    refine_every,  \* main's local refine_every
    todo,          \* files left in the running per-file loop (resize, convert)
    patterns,      \* retrieval patterns left in run_remote_training's loop
    trainArgs,     \* arguments handed to the training stage, <<>> before
    dispatchRet,   \* return values of run_remote_training in this invocation
    plyFound,      \* .ply files run_remote_training's scan of the workspace found
    summarized,    \* print_summary ran in this invocation
    saved_config,  \* the file at REMOTE_CONFIG_PATH: <<>> when absent, <<profile>> otherwise
    profile,       \* main's locals remote_host, remote_user, remote_path
    env,           \* what the invocation's preamble finds in its environment
    stages,        \* the stages this invocation has started, in order (history)
    brushFs,       \* what the Brush lookup is given: --brush-path, BRUSH_PATH, the file system
    brush_path,    \* main's brush_path: <<>> before the lookup, <<path>> after it
    clock,         \* int(time.time()): the wall clock in whole seconds
    jobs,          \* the remote job directories named by run_remote_training so far (history)
    pre            \* images as they were when resize_images started (history)

vars == <<pc, runs, args, exited, exitStatus, error, calls, imagesDir, images,
          originals, sparse, frame_count, defaults, total_steps, refine_every, todo,
          patterns, trainArgs, dispatchRet, plyFound, summarized, saved_config,
          profile, env, stages, brushFs, brush_path, clock, jobs, pre>>

\* The directory tree, which outlives an invocation.
workspace == <<imagesDir, images, originals, sparse>>
\* The process's exit.
exit == <<exited, exitStatus, error>>
\* main's locals.
locals == <<frame_count, defaults, total_steps, refine_every>>
\* run_remote_training's state and what the training stage was handed.
remote == <<patterns, trainArgs, dispatchRet, plyFound>>
\* The stored remote profile, the effective one and the environment read.
config == <<saved_config, profile, env, brushFs, brush_path, clock>>

\* ------------------------------------------------------------ files
\* Content of a frame file: which frame of the video it shows and how many
\* times ImageMagick has re-encoded it (0: as written by ffmpeg).
Raw(i) == [idx |-> i, enc |-> 0]
Resized(c) == [idx |-> c.idx, enc |-> c.enc + 1]

NoFiles == [f \in {} |-> Raw(f)]

\* Writing the files of `new` into a directory holding `old` (overwrites).
WriteInto(old, new) ==
    [f \in DOMAIN old \cup DOMAIN new |-> IF f \in DOMAIN new THEN new[f] ELSE old[f]]

Call(tool, arg, rc) == [tool |-> tool, arg |-> arg, rc |-> rc]

Tools(s) == {s[i].tool : i \in 1..Len(s)}

Min(a, b) == IF a < b THEN a ELSE b

\* The entry a loop over a directory listing visits next: Path.glob and
\* Path.iterdir list a directory in the file system's order, taken here to be
\* the order of the names.
First(S) == CHOOSE f \in S : \A g \in S : f <= g

\* sys.exit(1) after printing message `msg`.
Exit1(msg) ==
    /\ pc' = "done"
    /\ exited' = TRUE
    /\ exitStatus' = 1
    /\ error' = msg

\* ------------------------------------------------------------ main: preamble
\* None or the empty string: the code only tests the truth of these values.
Falsy == ""
\* argparse's default of --remote-path.
DefaultRemotePath == "/c/splat/jobs"

\* The command lines an invocation can be given.
Args(stepsArgs, hosts, users, paths, saves) ==
    [skip_extract : BOOLEAN, skip_colmap : BOOLEAN, skip_training : BOOLEAN,
     remote : BOOLEAN, steps : {NoSteps} \cup {<<s>> : s \in stepsArgs},
     remote_host : hosts, remote_user : users, remote_path : paths,
     save_remote_config : saves]

\* main's defaults before get_smart_defaults is called.
NoDefaults == [steps |-> 0, refine_every |-> 0, sh_degree |-> 0, export_every |-> 0]

NoArgs ==
    [skip_extract |-> FALSE, skip_colmap |-> FALSE, skip_training |-> FALSE,
     remote |-> FALSE, steps |-> NoSteps, remote_host |-> Falsy,
     remote_user |-> Falsy, remote_path |-> DefaultRemotePath,
     save_remote_config |-> FALSE]

\* What the preamble reads of the environment: whether a Brush path is given
\* or found, whether that path and the video exist, and whether ffmpeg, colmap
\* and magick are installed.
Env ==
    [brushLocated : BOOLEAN, brushExists : BOOLEAN, videoExists : BOOLEAN,
     depsPresent : BOOLEAN]

NoEnv ==
    [brushLocated |-> TRUE, brushExists |-> TRUE, videoExists |-> TRUE,
     depsPresent |-> TRUE]

NoProfile == [host |-> Falsy, user |-> Falsy, remote_path |-> DefaultRemotePath]

\* load_remote_config returns None when the file is absent.
NoConfig == <<>>

\* The state of a process that has not run yet.
NoProcess ==
    /\ args = NoArgs
    /\ exited = FALSE
    /\ exitStatus = 0
    /\ error = "none"
    /\ calls = <<>>
    /\ frame_count = 0
    /\ defaults = NoDefaults
    /\ total_steps = 0
    /\ refine_every = 0
    /\ todo = {}
    /\ patterns = <<>>
    /\ trainArgs = <<>>
    /\ dispatchRet = <<>>
    /\ plyFound = 0
    /\ summarized = FALSE
    /\ profile = NoProfile
    /\ env = NoEnv
    /\ stages = <<>>
    /\ pre = NoFiles

\* Python's `a or b` on strings.
Or(a, b) == IF a # Falsy THEN a ELSE b

\* ------------------------------------------------------------ find_brush
\* BRUSH_SEARCH_PATHS, in order.
BRUSH_SEARCH_PATHS ==
    <<"/Applications/brush_app", "/Applications/Brush.app/Contents/MacOS/brush_app",
      "~/Applications/brush_app", "~/brush-app-aarch64-apple-darwin/brush_app",
      "~/Downloads/brush-app-aarch64-apple-darwin/brush_app">>

\* The two patterns find_brush globs for under the home directory, in order.
HomePatterns == <<"~/**/brush_app", "~/**/brush-app*/brush_app">>

\* What glob.glob can return for a pattern: the matches in the order it lists them.
GlobMatches == {<<>>, <<"~/a/brush_app">>, <<"~/b/brush_app", "~/a/brush_app">>}

\* The paths --brush-path and BRUSH_PATH are given: unset, or a path.
OverridePaths == {Falsy, "/opt/brush_app"}

\* The environments of the lookup: the two overrides, the set of paths
\* os.path.exists is true of, and glob's result for each pattern.
LookupInputs ==
    [brush_path_arg : OverridePaths, BRUSH_PATH : OverridePaths,
     exists : SUBSET ((OverridePaths \ {Falsy})
                        \cup {BRUSH_SEARCH_PATHS[i] : i \in DOMAIN BRUSH_SEARCH_PATHS}),
     matches : [DOMAIN HomePatterns -> GlobMatches]]

\* Nothing set, nothing installed.
NoLookupInputs ==
    [brush_path_arg |-> Falsy, BRUSH_PATH |-> Falsy, exists |-> {},
     matches |-> [i \in DOMAIN HomePatterns |-> <<>>]]

NoLookup ==
    /\ brushFs = NoLookupInputs
    /\ brush_path = <<>>

\* find_brush(): BRUSH_PATH when set and existing, else the first existing
\* entry of BRUSH_SEARCH_PATHS, else the first match of the first pattern that
\* has one, else None.
find_brush(fs) ==
    IF fs.BRUSH_PATH # Falsy /\ fs.BRUSH_PATH \in fs.exists THEN fs.BRUSH_PATH
    ELSE IF \E i \in DOMAIN BRUSH_SEARCH_PATHS : BRUSH_SEARCH_PATHS[i] \in fs.exists
      THEN BRUSH_SEARCH_PATHS[First({i \in DOMAIN BRUSH_SEARCH_PATHS :
                                       BRUSH_SEARCH_PATHS[i] \in fs.exists})]
    ELSE IF \E i \in DOMAIN HomePatterns : fs.matches[i] # <<>>
      THEN Head(fs.matches[First({i \in DOMAIN HomePatterns : fs.matches[i] # <<>>})])
    ELSE Falsy

\* brush_path = args.brush_path or find_brush()
main_find_brush ==
    /\ brush_path = <<>>
    /\ brush_path' = <<Or(brushFs.brush_path_arg, find_brush(brushFs))>>
    /\ UNCHANGED <<pc, runs, args, exit, calls, workspace, locals, todo, remote,
                   summarized, pre, stages, saved_config, profile, env, brushFs,
                   clock, jobs>>

\* remote_host, remote_user and remote_path after lines 566-578: the command
\* line's values, merged with the stored profile when the invocation is remote,
\* host or user is missing and a profile is stored.
EffectiveProfile(a, saved) ==
    IF a.remote /\ (a.remote_host = Falsy \/ a.remote_user = Falsy) /\ saved # NoConfig
      THEN [host |-> Or(a.remote_host, saved[1].host),
            user |-> Or(a.remote_user, saved[1].user),
            remote_path |-> Or(a.remote_path, saved[1].remote_path)]
      ELSE [host |-> a.remote_host, user |-> a.remote_user,
            remote_path |-> a.remote_path]

\* not remote_host or not remote_user
Incomplete(p) == p.host = Falsy \/ p.user = Falsy

\* Mutant of Saves: the profile is saved whether or not it was asked for.
Saves_unasked(a, p) == a.remote /\ ~Incomplete(p)

\* save_remote_config is reached when the invocation is remote, the effective
\* profile has host and user and --save-remote-config is given.
Saves(a, p) == a.remote /\ ~Incomplete(p) /\ a.save_remote_config

\* Mutant of Preamble: a remote invocation without host or user goes on.
Preamble_unchecked(a, e, p) ==
    IF ~a.remote /\ ~a.skip_training /\ ~e.brushLocated THEN "brush"
    ELSE IF ~a.skip_extract /\ ~e.videoExists THEN "video"
    ELSE IF ~e.depsPresent THEN "deps"
    ELSE IF ~a.remote /\ ~a.skip_training /\ ~e.brushExists THEN "brush"
    ELSE "none"

\* Mutant of Preamble: the video is not looked for.
Preamble_novideo(a, e, p) ==
    IF a.remote /\ Incomplete(p) THEN "config"
    ELSE IF ~a.remote /\ ~a.skip_training /\ ~e.brushLocated THEN "brush"
    ELSE IF ~e.depsPresent THEN "deps"
    ELSE IF ~a.remote /\ ~a.skip_training /\ ~e.brushExists THEN "brush"
    ELSE "none"

\* main() from argument parsing to check_dependencies: the error it exits
\* with, "none" when it reaches step 1.
Preamble(a, e, p) ==
    IF a.remote /\ Incomplete(p) THEN "config"
    ELSE IF ~a.remote /\ ~a.skip_training /\ ~e.brushLocated THEN "brush"
    ELSE IF ~a.skip_extract /\ ~e.videoExists THEN "video"
    ELSE IF ~e.depsPresent THEN "deps"
    ELSE IF ~a.remote /\ ~a.skip_training /\ ~e.brushExists THEN "brush"
    ELSE "none"

\* The environments of a command line a: what main() never looks at under a
\* (the video with --skip-extract, Brush with --remote or --skip-training, the
\* existence of a path that was not found) is left at its NoEnv value.
EnvOf(a) ==
    {e \in Env :
        /\ a.skip_extract => e.videoExists
        /\ (a.remote \/ a.skip_training) => e.brushLocated /\ e.brushExists
        /\ (~a.remote /\ ~a.skip_training /\ ~e.brushLocated) => ~e.brushExists}

\* A new invocation of main() with a command line of A, up to step 1.
main_start_with(A) ==
    /\ pc = "idle"
    /\ runs < MaxRuns
    /\ runs' = runs + 1
    /\ \E a \in A : \E e \in EnvOf(a) :
        /\ args' = a
        /\ env' = e
        /\ profile' = EffectiveProfile(a, saved_config)
        /\ saved_config' = IF Saves(a, profile') THEN <<profile'>> ELSE saved_config
        /\ IF Preamble(a, e, profile') # "none"
             THEN Exit1(Preamble(a, e, profile'))
             ELSE pc' = "extract" /\ UNCHANGED exit
    /\ UNCHANGED <<calls, workspace, locals, todo, remote, summarized, pre, stages,
                   brushFs, brush_path, clock, jobs>>

\* The command lines of Spec: a remote invocation gives host and user or
\* neither, the path is the default and the profile is not saved.
ArgsSpec ==
    {a \in Args(StepsArgs, {Falsy, "A"}, {Falsy, "B"}, {DefaultRemotePath}, {FALSE}) :
        /\ (a.remote_host = Falsy) = (a.remote_user = Falsy)
        /\ ~a.remote => a.remote_host = Falsy}

main_start == main_start_with(ArgsSpec)

\* ------------------------------------------------------------ extract_frames
\* ffmpeg -y writes frame_0001.jpg .. frame_000n.jpg over whatever is there and
\* leaves every other file of the directory alone.
extract_frames(n, rc) ==
    /\ imagesDir' = TRUE
    /\ images' = WriteInto(images, [i \in 1..n |-> Raw(i)])
    /\ calls' = Append(calls, Call("ffmpeg", 0, rc))
    /\ IF rc # 0
         THEN Exit1("stage") /\ UNCHANGED frame_count
         ELSE /\ frame_count' = Cardinality(DOMAIN images')
              /\ pc' = "resize"
              /\ UNCHANGED exit

\* Step 1 of main with extraction: a successful ffmpeg run has written at least
\* one frame, a failed one any number of them.
main_extract ==
    /\ pc = "extract"
    /\ ~args.skip_extract
    /\ \E rc \in RC :
        \E n \in (IF rc = 0 THEN 1 ELSE 0)..MaxFrames : extract_frames(n, rc)
    /\ stages' = Append(stages, "Extract")
    /\ UNCHANGED <<runs, args, originals, sparse, defaults, total_steps,
                   refine_every, todo, remote, summarized, pre, config, jobs>>

\* Step 1 of main with --skip-extract.
main_use_existing ==
    /\ pc = "extract"
    /\ args.skip_extract
    /\ IF ~imagesDir
         THEN Exit1("images_missing") /\ UNCHANGED frame_count
         ELSE /\ frame_count' = Cardinality(DOMAIN images)
              /\ pc' = "resize"
              /\ UNCHANGED exit
    /\ UNCHANGED <<runs, args, calls, workspace, defaults, total_steps,
                   refine_every, todo, remote, summarized, pre, config, jobs, stages>>

\* ------------------------------------------------------------ resize_images
\* Mutant of CopyOriginals: a file images_original already holds is not copied.
CopyOriginals_keep(imgs, origs) == WriteInto(imgs, origs)

\* shutil.copy of every *.jpg of images into images_original.
CopyOriginals(imgs, origs) == WriteInto(origs, imgs)

\* Mutant of resize_images_copy: resize_images is called with --skip-extract too.
resize_images_copy_always ==
    /\ pc = "resize"
    /\ pre' = images
    /\ originals' = CopyOriginals(images, originals)
    /\ todo' = DOMAIN images
    /\ pc' = IF todo' = {} THEN "colmap" ELSE "resize_loop"
    /\ stages' = Append(stages, "Resize")
    /\ UNCHANGED <<runs, args, exit, calls, imagesDir, images, sparse, locals,
                   remote, summarized, config, jobs>>

\* Step 2 of main with extraction: resize_images up to its second loop.
resize_images_copy ==
    /\ pc = "resize"
    /\ ~args.skip_extract
    /\ pre' = images
    /\ originals' = CopyOriginals(images, originals)
    /\ todo' = DOMAIN images
    /\ pc' = IF todo' = {} THEN "colmap" ELSE "resize_loop"
    /\ stages' = Append(stages, "Resize")
    /\ UNCHANGED <<runs, args, exit, calls, imagesDir, images, sparse, locals,
                   remote, summarized, config, jobs>>

\* Mutant of resize_images_magick: a failed magick ends the process.
resize_images_magick_fatal ==
    /\ pc = "resize_loop"
    /\ \E rc \in RC :
        LET f == First(todo) IN
        /\ calls' = Append(calls, Call("magick", f, rc))
        /\ images' = IF rc = 0 THEN [images EXCEPT ![f] = Resized(@)] ELSE images
        /\ todo' = todo \ {f}
        /\ IF rc # 0 THEN Exit1("stage")
           ELSE /\ pc' = IF todo' = {} THEN "colmap" ELSE "resize_loop"
                /\ UNCHANGED exit
    /\ UNCHANGED <<runs, args, imagesDir, originals, sparse, locals, remote,
                   summarized, pre, config, jobs, stages>>

\* One iteration of the second loop: magick resizes one file in place; its exit
\* code is not looked at.  A failed magick leaves the file as it was.
resize_images_magick ==
    /\ pc = "resize_loop"
    /\ \E rc \in RC :
        LET f == First(todo) IN
        /\ calls' = Append(calls, Call("magick", f, rc))
        /\ images' = IF rc = 0 THEN [images EXCEPT ![f] = Resized(@)] ELSE images
        /\ todo' = todo \ {f}
    /\ pc' = IF todo' = {} THEN "colmap" ELSE "resize_loop"
    /\ UNCHANGED <<runs, args, exit, imagesDir, originals, sparse, locals, remote,
                   summarized, pre, config, jobs, stages>>

\* Step 2 of main with --skip-extract.
main_skip_resize ==
    /\ pc = "resize"
    /\ args.skip_extract
    /\ pc' = "colmap"
    /\ UNCHANGED <<runs, args, exit, calls, workspace, locals, todo, remote,
                   summarized, pre, config, jobs, stages>>

\* ------------------------------------------------------------ run_colmap
\* Mutant of colmap_step: the step's exit code is not looked at.
colmap_step_unchecked(tool, rc, next) ==
    /\ calls' = Append(calls, Call(tool, 0, rc))
    /\ pc' = next
    /\ UNCHANGED exit

\* Steps 1-3 of run_colmap: a failed step prints the tool's stderr and exits.
colmap_step(tool, rc, next) ==
    /\ calls' = Append(calls, Call(tool, 0, rc))
    /\ IF rc # 0
         THEN Exit1("stage")
         ELSE pc' = next /\ UNCHANGED exit

run_colmap_feature_extractor ==
    /\ pc = "colmap"
    /\ ~args.skip_colmap
    /\ \E rc \in RC : colmap_step("feature_extractor", rc, "colmap_match")
    /\ stages' = Append(stages, "Reconstruct")
    /\ UNCHANGED <<runs, args, workspace, locals, todo, remote, summarized, pre,
                   config, jobs>>

run_colmap_matcher ==
    /\ pc = "colmap_match"
    /\ \E rc \in RC : colmap_step("matcher", rc, "colmap_mapper")
    /\ UNCHANGED <<runs, args, workspace, locals, todo, remote, summarized, pre,
                   config, jobs, stages>>

\* The mapper leaves k model directories under sparse/; the conversion loop
\* then visits every subdirectory of sparse/.
run_colmap_mapper ==
    /\ pc = "colmap_mapper"
    /\ \E rc \in RC, k \in 0..MaxModels :
        /\ sparse' = IF rc = 0 THEN sparse \cup 1..k ELSE sparse
        /\ todo' = IF rc = 0 THEN sparse' ELSE todo
        /\ colmap_step("mapper", rc, IF sparse' = {} THEN "advise" ELSE "colmap_convert")
    /\ UNCHANGED <<runs, args, imagesDir, images, originals, locals, remote,
                   summarized, pre, config, jobs, stages>>

\* Step 4 of run_colmap, one iteration: the converter's exit code is not looked at.
run_colmap_model_converter ==
    /\ pc = "colmap_convert"
    /\ \E rc \in RC :
        LET m == First(todo) IN
        /\ calls' = Append(calls, Call("model_converter", m, rc))
        /\ todo' = todo \ {m}
    /\ pc' = IF todo' = {} THEN "advise" ELSE "colmap_convert"
    /\ UNCHANGED <<runs, args, exit, workspace, locals, remote, summarized, pre,
                   config, jobs, stages>>

\* Mutant of main_skip_colmap: main goes straight to local training.
main_skip_colmap_unadvised ==
    /\ pc = "colmap"
    /\ args.skip_colmap
    /\ pc' = "train"
    /\ UNCHANGED <<runs, args, exit, calls, workspace, locals, todo, remote,
                   summarized, pre, config, jobs, stages>>

\* Step 3 of main with --skip-colmap.
main_skip_colmap ==
    /\ pc = "colmap"
    /\ args.skip_colmap
    /\ pc' = "advise"
    /\ UNCHANGED <<runs, args, exit, calls, workspace, locals, todo, remote,
                   summarized, pre, config, jobs, stages>>

\* ------------------------------------------------------------ get_smart_defaults
\* Mutant of get_smart_defaults: the brackets' edges are off by one.
get_smart_defaults_inclusive(fc) ==
    [steps |-> IF fc <= 50 THEN 20000
               ELSE IF fc <= 100 THEN 25000
               ELSE IF fc >= 300 THEN 35000
               ELSE 30000,
     refine_every |-> Min(fc, 200),
     sh_degree |-> 3,
     export_every |-> 5000]

\* Mutant of get_smart_defaults: refine_every is the frame count, uncapped.
get_smart_defaults_uncapped(fc) ==
    [steps |-> IF fc < 50 THEN 20000
               ELSE IF fc < 100 THEN 25000
               ELSE IF fc > 300 THEN 35000
               ELSE 30000,
     refine_every |-> fc,
     sh_degree |-> 3,
     export_every |-> 5000]

get_smart_defaults(fc) ==
    [steps |-> IF fc < 50 THEN 20000
               ELSE IF fc < 100 THEN 25000
               ELSE IF fc > 300 THEN 35000
               ELSE 30000,
     refine_every |-> Min(fc, 200),
     sh_degree |-> 3,
     export_every |-> 5000]

\* Python's truth value of args.steps: None and 0 are false.
Truthy(steps) == steps # NoSteps /\ steps[1] # 0

\* total_steps = args.steps or defaults['steps']
TotalSteps(steps, d) == IF Truthy(steps) THEN steps[1] ELSE d.steps

\* refine_every = defaults['refine_every']
RefineEvery(d) == d.refine_every

\* main between step 3 and step 4.
main_advise ==
    /\ pc = "advise"
    /\ defaults' = get_smart_defaults(frame_count)
    /\ total_steps' = TotalSteps(args.steps, defaults')
    /\ refine_every' = RefineEvery(defaults')
    /\ pc' = IF args.skip_training THEN "summary"
             ELSE IF args.remote THEN "remote_mkdir" ELSE "train"
    /\ stages' = Append(stages, "Advise")
    /\ UNCHANGED <<runs, args, exit, calls, workspace, frame_count, todo, remote,
                   summarized, pre, config, jobs>>

\* ------------------------------------------------------------ run_brush_training
\* Step 4 of main, local: one blocking Brush run; its exit code is returned and
\* main drops it.
\* Mutant of run_brush_training: a non-zero exit code of Brush ends the process.
run_brush_training_fatal ==
    /\ pc = "train"
    /\ \E rc \in RC :
        /\ calls' = Append(calls, Call("brush", 0, rc))
        /\ IF rc # 0 THEN Exit1("brush_failed")
                     ELSE pc' = "summary" /\ UNCHANGED exit
    /\ trainArgs' = <<[kind |-> "brush", total_steps |-> total_steps,
                       refine_every |-> refine_every]>>
    /\ stages' = Append(stages, "Train")
    /\ UNCHANGED <<runs, args, workspace, locals, todo, patterns,
                   dispatchRet, plyFound, summarized, pre, config, jobs>>

run_brush_training ==
    /\ pc = "train"
    /\ \E rc \in RC : calls' = Append(calls, Call("brush", 0, rc))
    /\ trainArgs' = <<[kind |-> "brush", total_steps |-> total_steps,
                       refine_every |-> refine_every]>>
    /\ pc' = "summary"
    /\ stages' = Append(stages, "Train")
    /\ UNCHANGED <<runs, args, exit, workspace, locals, todo, patterns,
                   dispatchRet, plyFound, summarized, pre, config, jobs>>

\* ------------------------------------------------------------ run_remote_training
\* The retrieval patterns of step 4 in the order tried: "output/*.ply", "*.ply"
\* and "output/**/*.ply".
Patterns == <<"output", "root", "nested">>

\* run_remote_training returns `ret` to main, which goes on to print_summary.
\* Mutant of Return: main exits with a non-zero status of run_remote_training.
Return_fatal(ret) ==
    /\ dispatchRet' = Append(dispatchRet, ret)
    /\ IF ret # 0 THEN pc' = "done" ELSE pc' = "summary"

Return(ret) ==
    /\ dispatchRet' = Append(dispatchRet, ret)
    /\ pc' = "summary"

\* f"{remote_base_path}/job_{int(time.time())}"
remote_job_path(remote_base_path, now) == <<remote_base_path, now>>

\* Mutant of remote_mkdir: the exit code of mkdir is not looked at.
remote_mkdir_unchecked ==
    /\ pc = "remote_mkdir"
    /\ trainArgs' = <<[kind |-> "remote", total_steps |-> total_steps,
                       remote_job_path |-> remote_job_path(profile.remote_path, clock)]>>
    /\ jobs' = jobs \cup {remote_job_path(profile.remote_path, clock)}
    /\ \E rc \in RC : calls' = Append(calls, Call("ssh_mkdir", 0, rc))
    /\ pc' = "remote_sync"
    /\ stages' = Append(stages, "Train")
    /\ UNCHANGED <<runs, args, exit, workspace, locals, todo, patterns,
                   dispatchRet, plyFound, summarized, pre, config>>

\* Step 1: ssh mkdir -p of the job directory.
remote_mkdir ==
    /\ pc = "remote_mkdir"
    /\ trainArgs' = <<[kind |-> "remote", total_steps |-> total_steps,
                       remote_job_path |-> remote_job_path(profile.remote_path, clock)]>>
    /\ jobs' = jobs \cup {remote_job_path(profile.remote_path, clock)}
    /\ \E rc \in RC :
        /\ calls' = Append(calls, Call("ssh_mkdir", 0, rc))
        /\ IF rc # 0
             THEN Return(1)
             ELSE pc' = "remote_sync" /\ UNCHANGED dispatchRet
    /\ stages' = Append(stages, "Train")
    /\ UNCHANGED <<runs, args, exit, workspace, locals, todo, patterns, plyFound,
                   summarized, pre, config>>

\* Mutant of remote_sync: the exit code of rsync is not looked at.
remote_sync_unchecked ==
    /\ pc = "remote_sync"
    /\ \E rc \in RC : calls' = Append(calls, Call("rsync_to", 0, rc))
    /\ pc' = "remote_train"
    /\ UNCHANGED <<runs, args, exit, workspace, locals, todo, patterns, trainArgs,
                   dispatchRet, plyFound, summarized, pre, config, jobs, stages>>

\* Step 2: rsync of images/ to the job directory.
remote_sync ==
    /\ pc = "remote_sync"
    /\ \E rc \in RC :
        /\ calls' = Append(calls, Call("rsync_to", 0, rc))
        /\ IF rc # 0
             THEN Return(1)
             ELSE pc' = "remote_train" /\ UNCHANGED dispatchRet
    /\ UNCHANGED <<runs, args, exit, workspace, locals, todo, patterns, trainArgs,
                   plyFound, summarized, pre, config, jobs, stages>>

\* Mutant of remote_train: a failed remote pipeline ends the dispatch with 1.
remote_train_fatal ==
    /\ pc = "remote_train"
    /\ \E rc \in RC :
        /\ calls' = Append(calls, Call("ssh_train", 0, rc))
        /\ IF rc # 0
             THEN Return(1) /\ UNCHANGED patterns
             ELSE /\ patterns' = Patterns
                  /\ pc' = "remote_fetch"
                  /\ UNCHANGED dispatchRet
    /\ UNCHANGED <<runs, args, exit, workspace, locals, todo, trainArgs, plyFound,
                   summarized, pre, config, jobs, stages>>

\* Step 3: the remote pipeline over ssh; a failure is only reported.
remote_train ==
    /\ pc = "remote_train"
    /\ \E rc \in RC : calls' = Append(calls, Call("ssh_train", 0, rc))
    /\ patterns' = Patterns
    /\ pc' = "remote_fetch"
    /\ UNCHANGED <<runs, args, exit, workspace, locals, todo, trainArgs,
                   dispatchRet, plyFound, summarized, pre, config, jobs, stages>>

\* Mutant of remote_fetch: the loop stops at the first pattern fetched.
remote_fetch_first ==
    /\ pc = "remote_fetch"
    /\ patterns # <<>>
    /\ \E rc \in RC :
        /\ calls' = Append(calls, Call("rsync_from", Head(patterns), rc))
        /\ patterns' = IF rc = 0 THEN <<>> ELSE Tail(patterns)
    /\ UNCHANGED <<pc, runs, args, exit, workspace, locals, todo, trainArgs,
                   dispatchRet, plyFound, summarized, pre, config, jobs, stages>>

\* Step 4, one iteration: rsync of one pattern back into the workspace; its
\* exit code is not looked at.
remote_fetch ==
    /\ pc = "remote_fetch"
    /\ patterns # <<>>
    /\ \E rc \in RC : calls' = Append(calls, Call("rsync_from", Head(patterns), rc))
    /\ patterns' = Tail(patterns)
    /\ UNCHANGED <<pc, runs, args, exit, workspace, locals, todo, trainArgs,
                   dispatchRet, plyFound, summarized, pre, config, jobs, stages>>

\* After the loop: the workspace is scanned for .ply files (what the tools
\* left there is the environment's choice), their number or a warning is
\* printed, and 0 is returned.
remote_scan ==
    /\ pc = "remote_fetch"
    /\ patterns = <<>>
    /\ \E n \in 0..MaxPly : plyFound' = n
    /\ Return(0)
    /\ UNCHANGED <<runs, args, exit, calls, workspace, locals, todo, patterns,
                   trainArgs, summarized, pre, config, jobs, stages>>

\* ------------------------------------------------------------ print_summary
\* Step 5 of main, after which main returns and the process exits with 0.
print_summary ==
    /\ pc = "summary"
    /\ summarized' = TRUE
    /\ pc' = "done"
    /\ exited' = TRUE
    /\ exitStatus' = 0
    /\ stages' = Append(stages, "Summarize")
    /\ UNCHANGED <<runs, args, error, calls, workspace, locals, todo, remote, pre,
                   config, jobs>>

\* The process is gone; only the workspace is left for the next invocation.
process_exit ==
    /\ pc = "done"
    /\ pc' = "idle"
    /\ args' = NoArgs
    /\ exited' = FALSE
    /\ exitStatus' = 0
    /\ error' = "none"
    /\ calls' = <<>>
    /\ frame_count' = 0
    /\ defaults' = NoDefaults
    /\ total_steps' = 0
    /\ refine_every' = 0
    /\ todo' = {}
    /\ patterns' = <<>>
    /\ trainArgs' = <<>>
    /\ dispatchRet' = <<>>
    /\ plyFound' = 0
    /\ summarized' = FALSE
    /\ profile' = NoProfile
    /\ env' = NoEnv
    /\ stages' = <<>>
    /\ pre' = NoFiles
    /\ UNCHANGED <<runs, workspace, saved_config, brushFs, brush_path, clock, jobs>>

\* ------------------------------------------------------------ specifications
\* A fresh workspace and no invocation yet.
Init ==
    /\ pc = "idle"
    /\ runs = 0
    /\ NoProcess
    /\ imagesDir = FALSE
    /\ images = NoFiles
    /\ originals = NoFiles
    /\ sparse = {}
    /\ saved_config = NoConfig
    /\ NoLookup
    /\ clock = 0
    /\ jobs = {}

Next ==
    \/ main_start
    \/ main_extract
    \/ main_use_existing
    \/ resize_images_copy
    \/ resize_images_magick
    \/ main_skip_resize
    \/ run_colmap_feature_extractor
    \/ run_colmap_matcher
    \/ run_colmap_mapper
    \/ run_colmap_model_converter
    \/ main_skip_colmap
    \/ main_advise
    \/ run_brush_training
    \/ remote_mkdir
    \/ remote_sync
    \/ remote_train
    \/ remote_fetch
    \/ remote_scan
    \/ print_summary
    \/ process_exit

Spec == Init /\ [][Next]_vars

\* The invocations the Parameter Advisor's claims are about: main() past its
\* preamble with --skip-extract --skip-colmap, on a workspace whose images
\* directory was filled beforehand with f frames.
InitAdvise ==
    /\ pc = "extract"
    /\ runs = 1
    /\ args \in {a \in Args(StepsArgsAdvise, {Falsy, "A"}, {Falsy, "B"},
                           {DefaultRemotePath}, {FALSE}) :
                    /\ a.skip_extract /\ a.skip_colmap
                    /\ a.remote_host = (IF a.remote THEN "A" ELSE Falsy)
                    /\ a.remote_user = (IF a.remote THEN "B" ELSE Falsy)}
    /\ exited = FALSE
    /\ exitStatus = 0
    /\ error = "none"
    /\ calls = <<>>
    /\ frame_count = 0
    /\ defaults = NoDefaults
    /\ total_steps = 0
    /\ refine_every = 0
    /\ todo = {}
    /\ patterns = <<>>
    /\ trainArgs = <<>>
    /\ dispatchRet = <<>>
    /\ plyFound = 0
    /\ summarized = FALSE
    /\ saved_config = NoConfig
    /\ NoLookup
    /\ clock = 0
    /\ jobs = {}
    /\ profile = EffectiveProfile(args, saved_config)
    /\ env = NoEnv
    /\ stages = <<>>
    /\ pre = NoFiles
    /\ imagesDir = TRUE
    /\ \E f \in 0..MaxFrameCount : images = [i \in 1..f |-> Raw(i)]
    /\ originals = NoFiles
    /\ sparse = {}

NextAdvise ==
    \/ main_use_existing
    \/ main_skip_resize
    \/ main_skip_colmap
    \/ main_advise
    \/ run_brush_training
    \/ remote_mkdir
    \/ remote_sync
    \/ remote_train
    \/ remote_fetch
    \/ remote_scan
    \/ print_summary

SpecAdvise == InitAdvise /\ [][NextAdvise]_vars

\* The invocations the remote profile's claims are about: main() run again
\* and again on a workspace that already holds a frame and a sparse model, with
\* --skip-extract and --skip-colmap, and every combination of --remote,
\* --remote-host, --remote-user, --remote-path and --save-remote-config.
ArgsConfig ==
    {a \in Args({}, {Falsy, "A", "X"}, {Falsy, "B"}, {DefaultRemotePath, "C"},
                BOOLEAN) : a.skip_extract /\ a.skip_colmap}

main_start_config == main_start_with(ArgsConfig)

InitConfig ==
    /\ pc = "idle"
    /\ runs = 0
    /\ NoProcess
    /\ imagesDir = TRUE
    /\ images = [i \in 1..1 |-> Raw(i)]
    /\ originals = NoFiles
    /\ sparse = {1}
    /\ saved_config = NoConfig
    /\ NoLookup
    /\ clock = 0
    /\ jobs = {}

NextConfig ==
    \/ main_start_config
    \/ main_use_existing
    \/ main_skip_resize
    \/ main_skip_colmap
    \/ main_advise
    \/ run_brush_training
    \/ remote_mkdir
    \/ remote_sync
    \/ remote_train
    \/ remote_fetch
    \/ remote_scan
    \/ print_summary
    \/ process_exit

SpecConfig == InitConfig /\ [][NextConfig]_vars

\* The lookups of Brush: main's `args.brush_path or find_brush()` in every
\* environment of LookupInputs.
InitLocate ==
    /\ pc = "idle"
    /\ runs = 0
    /\ NoProcess
    /\ imagesDir = FALSE
    /\ images = NoFiles
    /\ originals = NoFiles
    /\ sparse = {}
    /\ saved_config = NoConfig
    /\ brushFs \in LookupInputs
    /\ brush_path = <<>>
    /\ clock = 0
    /\ jobs = {}

NextLocate == main_find_brush

SpecLocate == InitLocate /\ [][NextLocate]_vars

\* A second passes.
time_passes ==
    /\ clock < MaxClock
    /\ clock' = clock + 1
    /\ UNCHANGED <<pc, runs, args, exit, calls, workspace, locals, todo, remote,
                   summarized, pre, stages, saved_config, profile, env, brushFs,
                   brush_path, jobs>>

\* The invocations the job identifiers' claim is about: remote training again
\* and again from a workspace that holds a frame and a sparse model, against
\* one remote base path, while time passes.
ArgsJobs ==
    {a \in Args({}, {"A"}, {"B"}, {DefaultRemotePath}, {FALSE}) :
        a.skip_extract /\ a.skip_colmap /\ a.remote /\ ~a.skip_training}

main_start_jobs == main_start_with(ArgsJobs)

NextJobs ==
    \/ main_start_jobs
    \/ time_passes
    \/ main_use_existing
    \/ main_skip_resize
    \/ main_skip_colmap
    \/ main_advise
    \/ remote_mkdir
    \/ remote_sync
    \/ remote_train
    \/ remote_fetch
    \/ remote_scan
    \/ print_summary
    \/ process_exit

SpecJobs == InitConfig /\ [][NextJobs]_vars

\* ------------------------------------------------------------ claims
\* The calls of the running invocation made with tool `t`.
CallsOf(t) == {i \in 1..Len(calls) : calls[i].tool = t}
Failed(i) == calls[i].rc # 0

\* The tools whose failure ends the pipeline.
FatalTools == {"ffmpeg", "feature_extractor", "matcher", "mapper"}

\* C1: when ffmpeg, the feature extractor, the matcher or the mapper exits with
\* a non-zero code, the process has exited with a non-zero status, that call
\* is the last external tool the invocation ran, and print_summary did not run.
C1_FatalStageFailureStops ==
    \A i \in 1..Len(calls) :
        (calls[i].tool \in FatalTools /\ Failed(i)) =>
            /\ i = Len(calls)
            /\ pc = "done"
            /\ exited
            /\ exitStatus # 0
            /\ ~summarized

\* A mapper failure after the resize loop and two successful colmap steps.
C1_Witness ==
    /\ CallsOf("magick") # {}
    /\ \E i \in CallsOf("mapper") : Failed(i)
    /\ exited /\ exitStatus = 1

\* C2: an invocation with --skip-extract whose images directory exists and
\* holds no frame invokes no external tool and ends with a non-zero status.
C2_SkipExtractEmptyImagesFails ==
    (args.skip_extract /\ imagesDir /\ DOMAIN images = {}) =>
        /\ calls = <<>>
        /\ pc = "done" => exitStatus # 0

\* C3: the derived step count is 20000 below 50 frames, 25000 from 50 to 99,
\* 35000 above 300 and 30000 from 100 to 300.
C3_StepBrackets ==
    defaults # NoDefaults =>
        LET f == frame_count
            steps == defaults.steps
        IN  /\ f < 50 => steps = 20000
            /\ (50 <= f /\ f < 100) => steps = 25000
            /\ f > 300 => steps = 35000
            /\ (100 <= f /\ f <= 300) => steps = 30000
            /\ f = 49 => steps = 20000
            /\ f \in {50, 99} => steps = 25000
            /\ f \in {100, 300} => steps = 30000
            /\ f = 301 => steps = 35000

\* The advisor has run on 301 frames.
C3_Witness ==
    /\ defaults # NoDefaults
    /\ frame_count = 301
    /\ defaults.steps = 35000

\* C4: the refine_every handed to Brush is min(frame_count, 200), whatever the
\* command line.
C4_RefineEveryIsMin ==
    (trainArgs # <<>> /\ trainArgs[1].kind = "brush") =>
        LET r == trainArgs[1].refine_every
        IN  /\ r <= frame_count
            /\ r <= 200
            /\ r = frame_count \/ r = 200

\* Brush is run on more than 200 frames with the step count overridden.
C4_Witness ==
    /\ trainArgs # <<>>
    /\ trainArgs[1].kind = "brush"
    /\ frame_count > 200
    /\ args.steps = <<60000>>
    /\ trainArgs[1].refine_every = 200

\* C5: a step count given on the command line is the step count handed to the
\* training stage, local or remote.
C5_ExplicitStepsOverride ==
    (trainArgs # <<>> /\ args.steps # NoSteps) =>
        trainArgs[1].total_steps = args.steps[1]

\* C6: from the first rescale on and until the invocation ends,
\* images_original holds every frame that was in images when resize_images
\* started, with the content it had then, and images holds a file of that name.
C6_OriginalsHoldPreResize ==
    /\ CallsOf("magick") # {} => DOMAIN pre # {}
    /\ \A f \in DOMAIN pre :
        /\ f \in DOMAIN originals
        /\ originals[f] = pre[f]
        /\ f \in DOMAIN images

\* Resize has finished with one file rescaled and another one's rescale failed.
C6_Witness ==
    /\ pc = "colmap"
    /\ \E f, g \in DOMAIN pre :
        /\ images[f] # pre[f]
        /\ images[g] = pre[g]
        /\ \E i \in CallsOf("magick") : calls[i].arg = g /\ Failed(i)
        /\ originals[f] = pre[f]

\* C7: a file of images_original keeps the content it was first written with.
C7_OriginalsNeverMutated ==
    [][\A f \in DOMAIN originals :
          f \in DOMAIN originals' /\ originals'[f] = originals[f]]_vars

\* The tools run_remote_training runs after creating the job directory.
AfterMkdir == {"rsync_to", "ssh_train", "rsync_from"}

\* C8: when creating the remote job directory fails, run_remote_training
\* returns 1 and runs no file-sync and no remote pipeline command.
C8_MkdirFailureAborts ==
    \A i \in CallsOf("ssh_mkdir") :
        Failed(i) =>
            /\ dispatchRet = <<1>>
            /\ Tools(calls) \cap AfterMkdir = {}

\* The job directory could not be created and main has gone on to the end.
C8_Witness ==
    /\ \E i \in CallsOf("ssh_mkdir") : Failed(i)
    /\ dispatchRet = <<1>>
    /\ pc = "done"

\* C9: when the transfer of images fails, run_remote_training returns 1 and
\* runs neither the remote pipeline command nor a retrieval; the remote
\* pipeline command only runs after a successful mkdir and a successful
\* transfer.
C9_SyncFailureAborts ==
    /\ \A i \in CallsOf("rsync_to") :
        Failed(i) =>
            /\ dispatchRet = <<1>>
            /\ Tools(calls) \cap {"ssh_train", "rsync_from"} = {}
    /\ \A k \in CallsOf("ssh_train") :
        \E i \in CallsOf("ssh_mkdir"), j \in CallsOf("rsync_to") :
            /\ i < j /\ j < k
            /\ ~Failed(i) /\ ~Failed(j)

\* The transfer failed after the job directory was created.
C9_Witness ==
    /\ \E i \in CallsOf("ssh_mkdir") : ~Failed(i)
    /\ \E j \in CallsOf("rsync_to") : Failed(j)
    /\ dispatchRet = <<1>>

\* mkdir and the transfer of images have succeeded in this invocation.
Dispatched ==
    /\ \E i \in CallsOf("ssh_mkdir") : ~Failed(i)
    /\ \E j \in CallsOf("rsync_to") : ~Failed(j)

\* C10: once mkdir and the transfer have succeeded, a run_remote_training that
\* has returned has returned 0 and has attempted retrieval after the remote
\* pipeline command, whatever that command's exit code, the retrievals'
\* exit codes and the number of artifacts found.
C10_RetrievalAfterRemoteRun ==
    (Dispatched /\ dispatchRet # <<>>) =>
        /\ dispatchRet = <<0>>
        /\ \E k \in CallsOf("ssh_train") :
            \E m \in CallsOf("rsync_from") : k < m

\* The remote pipeline failed, every retrieval failed, nothing was found.
C10_Witness ==
    /\ Dispatched
    /\ \E k \in CallsOf("ssh_train") : Failed(k)
    /\ CallsOf("rsync_from") # {}
    /\ \A m \in CallsOf("rsync_from") : Failed(m)
    /\ plyFound = 0
    /\ dispatchRet = <<0>>

\* The profile the specification describes for a command line a and a stored
\* profile: each field is the command line's when it was given there, the
\* stored one otherwise (--remote-path was given when it is not the default).
FieldwiseProfile(a, stored) ==
    [host |-> Or(a.remote_host, stored.host),
     user |-> Or(a.remote_user, stored.user),
     remote_path |-> IF a.remote_path # DefaultRemotePath
                       THEN a.remote_path ELSE stored.remote_path]

\* C11: in a remote invocation that finds a stored profile, each of host, user
\* and base path of the effective profile is the command line's value when
\* given there and the stored value otherwise.
C11_ProfileMergedFieldwise ==
    [][(pc = "idle" /\ pc' # "idle" /\ args'.remote /\ saved_config # NoConfig)
         => profile' = FieldwiseProfile(args', saved_config[1])]_vars

\* C12: a remote invocation whose effective profile lacks host or user exits
\* with status 1 and the configuration error, having invoked no command, started
\* no stage and left the stored profile as it was.
C12_IncompleteProfileExits ==
    [][(pc = "idle" /\ pc' # "idle" /\ args'.remote /\ Incomplete(profile'))
         => /\ pc' = "done" /\ exited' /\ exitStatus' = 1 /\ error' = "config"
            /\ calls' = <<>>
            /\ stages' = <<>>
            /\ saved_config' = saved_config]_vars

C12_Witness ==
    /\ pc = "done" /\ error = "config" /\ exitStatus = 1
    /\ args.remote /\ args.save_remote_config
    /\ args.remote_host # Falsy /\ args.remote_user = Falsy
    /\ saved_config = NoConfig

\* C13: in a local run a non-zero exit code of Brush does not stop the
\* pipeline: the run goes on to the summary and ends with status 0.
C13_BrushFailureNotFatal ==
    \A i \in CallsOf("brush") :
        Failed(i) => /\ pc \in {"summary", "done"}
                     /\ error = "none"
                     /\ pc = "done" => summarized /\ exitStatus = 0

C13_Witness ==
    /\ pc = "done" /\ summarized /\ exitStatus = 0
    /\ ~args.remote
    /\ \E i \in CallsOf("brush") : Failed(i)

\* A precondition of the invocation does not hold: the video is missing while
\* Extract is to run, images is missing while Extract is skipped, or training
\* is local and not skipped and no Brush executable is found or exists.
PreconditionViolated ==
    /\ pc # "idle"
    /\ \/ ~args.skip_extract /\ ~env.videoExists
       \/ args.skip_extract /\ ~imagesDir
       \/ ~args.remote /\ ~args.skip_training
            /\ (~env.brushLocated \/ ~env.brushExists)

\* C14: an invocation whose precondition is violated invokes no external tool
\* and starts no stage; it exits with a non-zero status.
C14_PreconditionFailsFast ==
    PreconditionViolated =>
        /\ calls = <<>>
        /\ stages = <<>>
        /\ pc \in {"extract", "done"}
        /\ pc = "done" => exited /\ exitStatus # 0

C14_Witness ==
    /\ pc = "done" /\ exitStatus = 1 /\ error = "images_missing"
    /\ args.skip_extract /\ ~imagesDir
    /\ calls = <<>>

\* C15: the stored profile changes only in the step that starts a remote
\* invocation with --save-remote-config and a complete effective profile, and
\* such a step leaves exactly that effective profile stored.
C15_ProfileSavedOnlyOnRequest ==
    [][/\ saved_config' # saved_config
           => /\ pc = "idle"
              /\ args'.remote /\ args'.save_remote_config /\ ~Incomplete(profile')
       /\ (pc = "idle" /\ pc' # "idle" /\ args'.remote /\ args'.save_remote_config
             /\ ~Incomplete(profile'))
           => saved_config' = <<profile'>>]_vars

\* A second invocation has saved a profile whose user came from the stored one.
C15_Witness ==
    /\ runs = 2 /\ pc # "idle"
    /\ args.remote /\ args.save_remote_config
    /\ args.remote_host = "X" /\ args.remote_user = Falsy
    /\ saved_config = <<[host |-> "X", user |-> "B", remote_path |-> "C"]>>

\* The stages in the order of the specification.
StageOrder == <<"Extract", "Resize", "Reconstruct", "Advise", "Train", "Summarize">>
Rank(st) == CHOOSE i \in DOMAIN StageOrder : StageOrder[i] = st
Started(st) == \E i \in DOMAIN stages : stages[i] = st

\* C16: the stages an invocation starts are in the order Extract, Resize,
\* Reconstruct, Advise, Train, Summarize, each at most once; Train is preceded
\* by Advise, and Advise works on the frame count of step 1.
C16_StagesInOrder ==
    /\ \A i, j \in DOMAIN stages : i < j => Rank(stages[i]) < Rank(stages[j])
    /\ Started("Train") => Started("Advise")
    /\ Started("Advise") =>
          /\ frame_count = Cardinality(DOMAIN images)
          /\ defaults = get_smart_defaults(frame_count)

C16_Witness ==
    /\ pc = "done"
    /\ stages = StageOrder

\* The tools that train: Brush, and the remote pipeline with what precedes and
\* follows it.
TrainTools == {"brush", "ssh_mkdir", "rsync_to", "ssh_train", "rsync_from"}

\* C17: an invocation with Reconstruct skipped on a workspace without a sparse
\* model invokes no training, local or remote, and ends with a non-zero status.
C17_SkipColmapNoModelFails ==
    (pc # "idle" /\ args.skip_colmap /\ sparse = {}) =>
        /\ Tools(calls) \cap TrainTools = {}
        /\ pc = "done" => exitStatus # 0

\* The model conversions made for sparse/m.
ConversionsOf(m) == {i \in CallsOf("model_converter") : calls[i].arg = m}

\* C18: once run_colmap is over after a successful mapper, every subdirectory
\* of sparse has been converted exactly once and nothing else has; and a failed
\* conversion, like any failed step, ends the invocation with a non-zero status.
C18_ConversionPerModelAndFatal ==
    /\ (Started("Reconstruct") /\ pc \notin {"colmap_match", "colmap_mapper", "colmap_convert"}
          /\ \E i \in CallsOf("mapper") : ~Failed(i))
        => /\ \A m \in sparse : Cardinality(ConversionsOf(m)) = 1
           /\ \A i \in CallsOf("model_converter") : calls[i].arg \in sparse
    /\ \A i \in CallsOf("model_converter") :
          (Failed(i) /\ pc # "colmap_convert") => pc = "done" /\ exitStatus # 0

\* The resize attempts made on images/f.
ResizesOf(f) == {i \in CallsOf("magick") : calls[i].arg = f}

\* C19: resize_images attempts every frame of images exactly once whatever the
\* attempts' exit codes, and the pipeline then goes on to step 3: while a resize
\* attempt is the last call made, no error has ended the run, the loop is left
\* only when no frame remains, and only --skip-colmap takes the run past
\* Reconstruct.
C19_ResizeFailureNotFatal ==
    /\ \A f \in DOMAIN images : Cardinality(ResizesOf(f)) <= 1
    /\ (Started("Resize") /\ pc # "resize_loop") =>
          \A f \in DOMAIN images : Cardinality(ResizesOf(f)) = 1
    /\ \A i \in CallsOf("magick") : calls[i].arg \in DOMAIN images
    /\ (calls # <<>> /\ calls[Len(calls)].tool = "magick") =>
          /\ error = "none" /\ exitStatus = 0
          /\ (pc = "resize_loop") = (todo # {})
          /\ pc \notin {"resize_loop", "colmap"} => args.skip_colmap

\* Two frames, the first resize failed, the second was still attempted and
\* Reconstruct is next.
C19_Witness ==
    /\ pc = "colmap"
    /\ Cardinality(DOMAIN images) = 2
    /\ \E i, j \in CallsOf("magick") : i < j /\ Failed(i) /\ j = Len(calls)

IsFetch(c) == c.tool = "rsync_from"
\* The retrieval patterns tried so far, in the order tried.
Fetched == [i \in DOMAIN SelectSeq(calls, IsFetch) |-> SelectSeq(calls, IsFetch)[i].arg]

\* C20: the three retrieval patterns are tried once each in the fixed order,
\* whatever the exit codes: what has been tried is a prefix of Patterns, and
\* all of Patterns once run_remote_training has returned 0.
C20_AllPatternsInOrder ==
    /\ Len(Fetched) <= Len(Patterns)
    /\ \A i \in DOMAIN Fetched : Fetched[i] = Patterns[i]
    /\ dispatchRet = <<0>> => Fetched = Patterns

\* All three tried although the first one succeeded and the second failed.
C20_Witness ==
    /\ dispatchRet = <<0>>
    /\ Fetched = Patterns
    /\ \E i, j \in CallsOf("rsync_from") :
          /\ calls[i].arg = Patterns[1] /\ ~Failed(i)
          /\ calls[j].arg = Patterns[2] /\ Failed(j)

\* C23: in a run that performs Extract the frame count handed on to the
\* Parameter Advisor is the number of frames that run's ffmpeg wrote, whatever
\* images held before: the step that extracts is explained by some number n of
\* frames written over the old content, and frame_count is that n.
C23_FrameCountIsProduced ==
    [][(pc = "extract" /\ ~args.skip_extract /\ pc' = "resize")
         => \E n \in 0..MaxFrames :
               /\ images' = WriteInto(images, [i \in 1..n |-> Raw(i)])
               /\ frame_count' = n]_vars

\* C24: when run_remote_training returns 1, main still runs print_summary and
\* the process exits with status 0, as after a dispatch that returned 0.
C24_DispatchStatusIgnored ==
    dispatchRet = <<1>> =>
        /\ pc \in {"summary", "done"}
        /\ error = "none"
        /\ pc = "done" => summarized /\ exitStatus = 0

C24_Witness ==
    /\ pc = "done" /\ summarized /\ exitStatus = 0
    /\ dispatchRet = <<1>>
    /\ \E i \in CallsOf("rsync_to") : Failed(i)

\* The run is past step 2 of main.
PastResize ==
    pc \in {"colmap", "colmap_match", "colmap_mapper", "colmap_convert", "advise",
            "train", "remote_mkdir", "remote_sync", "remote_train",
            "remote_fetch", "summary"}

\* C25: Resize runs exactly in the invocations in which Extract runs, and an
\* invocation with --skip-extract makes no resize attempt and leaves images and
\* images_original as they are.
C25_ResizeIffExtract ==
    [][/\ Started("Resize")' => Started("Extract")'
       /\ PastResize' => (Started("Resize")' = ~args'.skip_extract)
       /\ args'.skip_extract => CallsOf("magick")' = {}
       /\ (pc # "idle" /\ args.skip_extract)
            => UNCHANGED <<imagesDir, images, originals>>]_vars

C25_Witness ==
    /\ pc = "done" /\ summarized
    /\ args.skip_extract
    /\ images # NoFiles /\ originals # NoFiles
    /\ ~Started("Resize") /\ ~Started("Extract")

\* The lookup as the specification describes it: an override, given on the
\* command line or in BRUSH_PATH, counts only when it exists.
Locate(fs) ==
    IF fs.brush_path_arg # Falsy /\ fs.brush_path_arg \in fs.exists
      THEN fs.brush_path_arg
      ELSE find_brush(fs)

\* C21: the lookup yields the override when one is set and exists, else the
\* first existing well-known path, else the first match of the first pattern
\* that has one, else nothing; an override that does not exist is never the
\* result.
C21_LocateOrder ==
    brush_path # <<>> =>
        /\ brush_path[1] = Locate(brushFs)
        /\ brush_path[1] # Falsy => brush_path[1] \in
              brushFs.exists \cup {Head(brushFs.matches[i]) :
                                     i \in {j \in DOMAIN HomePatterns : brushFs.matches[j] # <<>>}}

\* C22: a call of run_remote_training names a job directory that no earlier
\* call has named.
C22_JobIdsDistinct ==
    [][(pc = "remote_mkdir" /\ pc' # "remote_mkdir")
         => remote_job_path(profile.remote_path, clock) \notin jobs]_vars
====
